---- MODULE Spec2Model ----
(***************************************************************************)
(* Model of app/api/endpoints/auth.py: the two handlers                    *)
(* login_access_token and refresh_token, run by concurrent requests        *)
(* against one transactional store (the refresh_token table), with the     *)
(* row lock of SELECT ... FOR UPDATE and the wall clock read by            *)
(* time.time().                                                            *)
(***************************************************************************)
EXTENDS Integers, Sequences, FiniteSets, TLC

(* ---------------------------------------------------------------- bounds *)

\* number of request slots that can be in flight at once
NProcs == 2

\* number of requests (logins and refreshes) the model serves in one behaviour
MaxRequests == 3

\* last clock tick of the model
MaxTime == 3

\* clock ticks per second: time.time() is a float, RefreshToken.exp an int of seconds
TicksPerSec == 2

\* get_settings().security.refresh_token_expire_secs, scaled down to seconds of the model
REFRESH_TOKEN_EXPIRE_SECS == 1

Procs == 1 .. NProcs

\* a value the random source never returns ("not-a-real-token")
NOT_A_REAL_TOKEN == 0

None == [none |-> TRUE]

(* ------------------------------------------------- external collaborators *)

\* app.core.security.password.get_password_hash, an opaque salted one-way function
get_password_hash(salt, password) == <<"hash", salt, password>>

\* app.core.security.password.verify_password(plain, hashed)
verify_password(password, hashed) == hashed[3] = password

\* app.core.security.password.DUMMY_PASSWORD: a fixed hash that belongs to no account
DUMMY_PASSWORD == get_password_hash("s0", "p1")

\* the user table: email -> row (User.email is the lookup key of line 69)
Users ==
  [e \in {"a@x", "b@x"} |->
     IF e = "a@x" THEN [user_id |-> 1, hashed_password |-> get_password_hash("s1", "p1")]
                  ELSE [user_id |-> 2, hashed_password |-> get_password_hash("s2", "p2")]]

\* every request mints at most one token, and so has every login before the
\* first state of SpecTwo
TokenValues == 1 .. (MaxRequests + Cardinality(DOMAIN Users))

Usernames == {"a@x", "b@x", "nobody@x"}

Passwords == {"p1", "p2"}

\* app.core.security.jwt.create_jwt_token(user_id): the signed token carries its subject
create_jwt_token(user_id) == [sub |-> user_id]

\* api_messages and HTTP status codes of the handlers
HTTP_200_OK == 200

HTTP_400_BAD_REQUEST == 400

HTTP_404_NOT_FOUND == 404

PASSWORD_INVALID == "PASSWORD_INVALID"

REFRESH_TOKEN_NOT_FOUND == "REFRESH_TOKEN_NOT_FOUND"

REFRESH_TOKEN_EXPIRED == "REFRESH_TOKEN_EXPIRED"

REFRESH_TOKEN_ALREADY_USED == "REFRESH_TOKEN_ALREADY_USED"

(* ------------------------------------------------------------------ state *)

VARIABLES
  now,        \* the wall clock, in ticks
  rows,       \* the committed refresh_token table, in insertion order
  entropy,    \* how many values secrets.token_urlsafe has returned
  locked,     \* locked[p]: the row numbers request p holds FOR UPDATE
  pc,         \* pc[p]: where request p stands in its handler
  req,        \* req[p]: the request p is serving
  token,      \* token[p]: the row the session of p loaded (line 121), or None
  pending,    \* pending[p]: the new RefreshToken the session of p has added, or None
  jwt_token,  \* jwt_token[p]: the access token p has had signed, or None
  resp,       \* resp[p]: the response p returned, or None
  verified,   \* verified[p]: the hashes verify_password was called with by p
  requests,   \* history: how many requests have arrived
  rotations,  \* history: rotations[v] = successful rotations that presented v
  presented,  \* history: presented[v] = refresh requests that have presented v
  arrival,    \* history: arrival[p] = what the store held for the presented value
              \*          when refresh request p arrived, whether the store had
              \*          failed a request on it, and whether p was waiting for the
              \*          row lock when its holder committed
  origin,     \* history: origin[i] = 0 if row i was inserted by a login, else the
              \*          number of the row whose rotation inserted it
  failed      \* history: the values whose refresh request the store has failed

vars == <<now, rows, entropy, locked, pc, req, token, pending, jwt_token, resp,
          verified, requests, rotations, presented, arrival, origin, failed>>

history == <<requests, rotations, presented, arrival, origin, failed>>

(* ---------------------------------------------------------------- helpers *)

\* HTTPException(status_code, detail)
HTTPException(status_code, detail) == [status |-> status_code, detail |-> detail]

\* AccessTokenResponse(access_token, refresh_token, refresh_token_expires_at)
AccessTokenResponse(access_token, refresh_token) ==
  [status |-> HTTP_200_OK,
   access_token |-> access_token,
   refresh_token |-> refresh_token.refresh_token,
   refresh_token_expires_at |-> refresh_token.exp]

\* mutant of token_urlsafe: the source returns the same value every time
token_constant(drawn) == 1

\* secrets.token_urlsafe(32): 256 random bits, a value not returned before
token_urlsafe(drawn) == drawn + 1

\* mutant of ExpOf: the expiry is rounded up to the next whole second
ExpOfCeiling(t) ==
  (t + REFRESH_TOKEN_EXPIRE_SECS * TicksPerSec + TicksPerSec - 1) \div TicksPerSec

\* int(time.time() + refresh_token_expire_secs): whole seconds, fraction dropped
ExpOf(t) == (t + REFRESH_TOKEN_EXPIRE_SECS * TicksPerSec) \div TicksPerSec

\* mutant of Expired: the comparison is >= instead of >
ExpiredAtExpiry(t, exp) == t >= exp * TicksPerSec

\* time.time() > token.exp
Expired(t, exp) == t > exp * TicksPerSec

\* RefreshToken(user_id, refresh_token, exp); the column `used` defaults to false
RefreshToken(user_id, refresh_token, exp) ==
  [user_id |-> user_id, refresh_token |-> refresh_token, exp |-> exp, used |-> FALSE]

\* mutant of LookupUser: the where clause is missing, the first user is returned
LookupFirstUser(username) == Users["a@x"]

\* select(User).where(User.email == username), .scalars().first()
LookupUser(username) == IF username \in DOMAIN Users THEN Users[username] ELSE None

\* mutant of VerifyCalls: the branch `user is None` returns early, verifying nothing
VerifyCallsEarlyReturn(user) == IF user = None THEN <<>> ELSE <<user.hashed_password>>

\* the hashes the verify_password calls of lines 74 and 81 are given
VerifyCalls(user) ==
  IF user = None THEN <<DUMMY_PASSWORD>> ELSE <<user.hashed_password>>

\* mutant of UnknownUserError: the unknown identifier gets an error of its own
UserNotFoundError == HTTPException(HTTP_404_NOT_FOUND, "USER_NOT_FOUND")

\* the error of the branch `user is None` (lines 76-79)
UnknownUserError == HTTPException(HTTP_400_BAD_REQUEST, PASSWORD_INVALID)

\* the error of the branch `not verify_password(...)` (lines 82-85)
WrongPasswordError == HTTPException(HTTP_400_BAD_REQUEST, PASSWORD_INVALID)

\* mutant of Matching: the where clause is missing
MatchingAnyRow(value) == 1 .. Len(rows)

\* the rows select(RefreshToken).where(RefreshToken.refresh_token == value) matches
Matching(value) == {i \in 1 .. Len(rows) : rows[i].refresh_token = value}

\* mutant of LockedByOthers: the select is issued without with_for_update()
NoRowLock(p) == {}

\* the rows some request other than p holds locked
LockedByOthers(p) == UNION {locked[q] : q \in Procs \ {p}}

\* result.scalars().first()
First(S) == IF S = {} THEN 0 ELSE CHOOSE i \in S : \A j \in S : i <= j

\* mutant of Outcome: the used check comes before the expiry check
OutcomeUsedFirst(t, tok) ==
  IF tok = None THEN "not_found"
  ELSE IF tok.used THEN "used"
  ELSE IF Expired(t, tok.exp) THEN "expired"
  ELSE "valid"

\* mutant of Outcome: the used check is missing
OutcomeNoUsedCheck(t, tok) ==
  IF tok = None THEN "not_found"
  ELSE IF Expired(t, tok.exp) THEN "expired"
  ELSE "valid"

\* the branch the if / elif chain of lines 123-137 takes for the loaded row
Outcome(t, tok) ==
  IF tok = None THEN "not_found"
  ELSE IF Expired(t, tok.exp) THEN "expired"
  ELSE IF tok.used THEN "used"
  ELSE "valid"

\* the values a client can present: the ones a committed response has handed
\* out, and one the random source never returns
Presentable == {rows[i].refresh_token : i \in 1 .. Len(rows)} \cup {NOT_A_REAL_TOKEN}

\* a request is served by the first free slot (the slots are interchangeable)
FreeSlot(p) == pc[p] = "idle" /\ \A q \in Procs : q < p => pc[q] # "idle"

(* ------------------------------------------------------------------- Init *)

Init ==
  /\ now = 0
  /\ rows = <<>>
  /\ entropy = 0
  /\ locked = [p \in Procs |-> {}]
  /\ pc = [p \in Procs |-> "idle"]
  /\ req = [p \in Procs |-> None]
  /\ token = [p \in Procs |-> None]
  /\ pending = [p \in Procs |-> None]
  /\ jwt_token = [p \in Procs |-> None]
  /\ resp = [p \in Procs |-> None]
  /\ verified = [p \in Procs |-> <<>>]
  /\ requests = 0
  /\ rotations = [v \in TokenValues \cup {NOT_A_REAL_TOKEN} |-> 0]
  /\ presented = [v \in TokenValues \cup {NOT_A_REAL_TOKEN} |-> 0]
  /\ arrival = [p \in Procs |-> None]
  /\ origin = <<>>
  /\ failed = {}

(* ---------------------------------------------------------------- actions *)

\* the wall clock advances
Tick ==
  /\ now < MaxTime
  /\ now' = now + 1
  /\ UNCHANGED <<rows, entropy, locked, pc, req, token, pending, jwt_token, resp,
                 verified>>
  /\ UNCHANGED history

\* login_access_token, lines 69-94: look the user up, verify, mint, session.add
Login(p, username, password) ==
  /\ FreeSlot(p)
  /\ requests < MaxRequests
  /\ requests' = requests + 1
  /\ req' = [req EXCEPT ![p] = [op |-> "login", username |-> username,
                                password |-> password]]
  /\ LET user == LookupUser(username) IN
     IF user = None
     THEN /\ verified' = [verified EXCEPT ![p] = VerifyCalls(user)]
          /\ resp' = [resp EXCEPT ![p] = UnknownUserError]
          /\ pc' = [pc EXCEPT ![p] = "done"]
          /\ UNCHANGED <<pending, jwt_token, entropy>>
     ELSE /\ verified' = [verified EXCEPT ![p] = VerifyCalls(user)]
          /\ IF ~ verify_password(password, user.hashed_password)
             THEN /\ resp' = [resp EXCEPT ![p] = WrongPasswordError]
                  /\ pc' = [pc EXCEPT ![p] = "done"]
                  /\ UNCHANGED <<pending, jwt_token, entropy>>
             ELSE /\ entropy' = entropy + 1
                  /\ jwt_token' = [jwt_token EXCEPT ![p] =
                                     create_jwt_token(user.user_id)]
                  /\ pending' = [pending EXCEPT ![p] =
                                   RefreshToken(user.user_id, token_urlsafe(entropy),
                                                ExpOf(now))]
                  /\ pc' = [pc EXCEPT ![p] = "login_commit"]
                  /\ UNCHANGED resp
  /\ UNCHANGED <<now, rows, locked, token, rotations, presented, arrival, origin,
                 failed>>

\* mutant of LoginFlush: a login revokes the earlier tokens of its user
LoginFlushRevoking(p) ==
  Append([i \in DOMAIN rows |->
            IF rows[i].user_id = pending[p].user_id THEN [rows[i] EXCEPT !.used = TRUE]
                                                    ELSE rows[i]],
         pending[p])

\* what session.commit() of login_access_token writes: the added row
LoginFlush(p) == Append(rows, pending[p])

\* login_access_token, lines 95-102: commit the insert, return the pair
LoginCommit(p) ==
  /\ pc[p] = "login_commit"
  /\ rows' = LoginFlush(p)
  /\ origin' = Append(origin, 0)
  /\ resp' = [resp EXCEPT ![p] = AccessTokenResponse(jwt_token[p], pending[p])]
  /\ pending' = [pending EXCEPT ![p] = None]
  /\ jwt_token' = [jwt_token EXCEPT ![p] = None]
  /\ pc' = [pc EXCEPT ![p] = "done"]
  /\ UNCHANGED <<now, entropy, locked, req, token, verified, requests, rotations,
                 presented, arrival, failed>>

\* refresh_token, line 110: the request arrives with data.refresh_token = value
RotateStart(p, value) ==
  /\ FreeSlot(p)
  /\ requests < MaxRequests
  /\ requests' = requests + 1
  /\ req' = [req EXCEPT ![p] = [op |-> "refresh", refresh_token |-> value]]
  /\ pc' = [pc EXCEPT ![p] = "select"]
  /\ arrival' = [arrival EXCEPT ![p] =
                   IF Matching(value) = {}
                   THEN [found |-> FALSE, first |-> FALSE, retry |-> FALSE,
                         waited |-> FALSE]
                   ELSE [found |-> TRUE,
                         first |-> presented[value] = 0,
                         retry |-> value \in failed,
                         waited |-> FALSE,
                         used |-> rows[First(Matching(value))].used,
                         expired |-> Expired(now, rows[First(Matching(value))].exp)]]
  /\ presented' = [presented EXCEPT ![value] = @ + 1]
  /\ UNCHANGED <<now, rows, entropy, locked, token, pending, jwt_token, resp,
                 verified, rotations, origin, failed>>

\* refresh_token, lines 116-121: SELECT ... FOR UPDATE waits until no other
\* transaction holds a matching row, locks the matching rows, loads the first
RotateSelect(p) ==
  /\ pc[p] = "select"
  /\ LET found == Matching(req[p].refresh_token) IN
     /\ found \cap LockedByOthers(p) = {}
     /\ locked' = [locked EXCEPT ![p] = found]
     /\ token' = [token EXCEPT ![p] =
                    IF found = {} THEN None
                    ELSE [id |-> First(found),
                          user_id |-> rows[First(found)].user_id,
                          refresh_token |-> rows[First(found)].refresh_token,
                          exp |-> rows[First(found)].exp,
                          used |-> rows[First(found)].used]]
  /\ pc' = [pc EXCEPT ![p] = "validate"]
  /\ UNCHANGED <<now, rows, entropy, req, pending, jwt_token, resp, verified>>
  /\ UNCHANGED history

\* mutant of Rollback: the failure path writes the session's pending update
RollbackKeepsUpdate(p) ==
  IF token[p] = None THEN rows
  ELSE [rows EXCEPT ![token[p].id].used = token[p].used]

\* mutant of Rollback: the failure path leaves the rows it had locked marked used
RollbackMarksUsed(p) ==
  [i \in DOMAIN rows |-> IF i \in locked[p] THEN [rows[i] EXCEPT !.used = TRUE]
                                             ELSE rows[i]]

\* mutant of Rollback: the failure path clears `used` on the rows it had locked
RollbackClearsUsed(p) ==
  [i \in DOMAIN rows |-> IF i \in locked[p] THEN [rows[i] EXCEPT !.used = FALSE]
                                             ELSE rows[i]]

\* the store after the transaction of p is rolled back: as it was
Rollback(p) == rows

\* mutant of Raise: the failure path ends the request without releasing its
\* row locks
RaiseKeepsLock(p, error) ==
  /\ resp' = [resp EXCEPT ![p] = error]
  /\ pc' = [pc EXCEPT ![p] = "done"]
  /\ rows' = Rollback(p)
  /\ locked' = locked
  /\ token' = [token EXCEPT ![p] = None]
  /\ pending' = [pending EXCEPT ![p] = None]
  /\ jwt_token' = [jwt_token EXCEPT ![p] = None]

\* the request ends in an exception: the session closes, its transaction is
\* rolled back (the objects it held are dropped) and its row locks are released
Raise(p, error) ==
  /\ resp' = [resp EXCEPT ![p] = error]
  /\ pc' = [pc EXCEPT ![p] = "done"]
  /\ rows' = Rollback(p)
  /\ locked' = [locked EXCEPT ![p] = {}]
  /\ token' = [token EXCEPT ![p] = None]
  /\ pending' = [pending EXCEPT ![p] = None]
  /\ jwt_token' = [jwt_token EXCEPT ![p] = None]

\* refresh_token, lines 123-149: not found / expired / used, else mark the row
\* used in the session, mint the successor and add it to the session
RotateValidate(p) ==
  /\ pc[p] = "validate"
  /\ LET branch == Outcome(now, token[p]) IN
     IF branch = "not_found"
     THEN /\ Raise(p, HTTPException(HTTP_404_NOT_FOUND, REFRESH_TOKEN_NOT_FOUND))
          /\ UNCHANGED entropy
     ELSE IF branch = "expired"
     THEN /\ Raise(p, HTTPException(HTTP_400_BAD_REQUEST, REFRESH_TOKEN_EXPIRED))
          /\ UNCHANGED entropy
     ELSE IF branch = "used"
     THEN /\ Raise(p, HTTPException(HTTP_400_BAD_REQUEST, REFRESH_TOKEN_ALREADY_USED))
          /\ UNCHANGED entropy
     ELSE /\ token' = [token EXCEPT ![p].used = TRUE]
          /\ jwt_token' = [jwt_token EXCEPT ![p] = create_jwt_token(token[p].user_id)]
          /\ entropy' = entropy + 1
          /\ pending' = [pending EXCEPT ![p] =
                           RefreshToken(token[p].user_id, token_urlsafe(entropy),
                                        ExpOf(now))]
          /\ pc' = [pc EXCEPT ![p] = "commit"]
          /\ UNCHANGED <<rows, resp, locked>>
  /\ UNCHANGED <<now, req, verified>>
  /\ UNCHANGED history

\* mutant of Flush: the insert is written, the update is lost
FlushInsertOnly(p) == Append(rows, pending[p])

\* mutant of Flush: the update is written, the insert is lost
FlushUpdateOnly(p) == [rows EXCEPT ![token[p].id].used = token[p].used]

\* what session.commit() of refresh_token writes: the loaded row with the
\* session's value of `used`, and the added row
Flush(p) == Append([rows EXCEPT ![token[p].id].used = token[p].used], pending[p])

\* refresh_token, lines 150-157: commit the update and the insert together,
\* release the row lock, return the pair
RotateCommit(p) ==
  /\ pc[p] = "commit"
  /\ rows' = Flush(p)
  /\ origin' = Append(origin, token[p].id)
  /\ locked' = [locked EXCEPT ![p] = {}]
  /\ resp' = [resp EXCEPT ![p] = AccessTokenResponse(jwt_token[p], pending[p])]
  /\ rotations' = [rotations EXCEPT ![req[p].refresh_token] = @ + 1]
  /\ token' = [token EXCEPT ![p] = None]
  /\ pending' = [pending EXCEPT ![p] = None]
  /\ jwt_token' = [jwt_token EXCEPT ![p] = None]
  /\ pc' = [pc EXCEPT ![p] = "done"]
  /\ arrival' = [q \in Procs |->
                   IF pc[q] = "select" /\ req[q].refresh_token = req[p].refresh_token
                   THEN [arrival[q] EXCEPT !.waited = TRUE]
                   ELSE arrival[q]]
  /\ UNCHANGED <<now, entropy, req, verified, requests, presented, failed>>

\* the response has been delivered; the slot serves another request
Return(p) ==
  /\ pc[p] = "done"
  /\ pc' = [pc EXCEPT ![p] = "idle"]
  /\ req' = [req EXCEPT ![p] = None]
  /\ resp' = [resp EXCEPT ![p] = None]
  /\ verified' = [verified EXCEPT ![p] = <<>>]
  /\ arrival' = [arrival EXCEPT ![p] = None]
  /\ UNCHANGED <<now, rows, entropy, locked, token, pending, jwt_token, requests,
                 rotations, presented, origin, failed>>

\* session.execute, create_jwt_token or session.commit raises (store
\* unavailable, lock wait timeout): nothing in the handlers catches it, the
\* transaction is rolled back and the caller gets the server's 500 response
StoreFailure(p) ==
  /\ pc[p] \in {"login_commit", "select", "validate", "commit"}
  /\ Raise(p, HTTPException(500, "Internal Server Error"))
  /\ failed' = IF req[p].op = "refresh" THEN failed \cup {req[p].refresh_token}
                                        ELSE failed
  /\ UNCHANGED <<now, entropy, req, verified, requests, rotations, presented, arrival,
                 origin>>

Next ==
  \/ Tick
  \/ \E p \in Procs, u \in Usernames, w \in Passwords : Login(p, u, w)
  \/ \E p \in Procs : LoginCommit(p)
  \/ \E p \in Procs, v \in Presentable : RotateStart(p, v)
  \/ \E p \in Procs : RotateSelect(p)
  \/ \E p \in Procs : RotateValidate(p)
  \/ \E p \in Procs : RotateCommit(p)
  \/ \E p \in Procs : Return(p)

Spec == Init /\ [][Next]_vars

\* the same program with a store that can fail at any of its operations
NextFail ==
  \/ Next
  \/ \E p \in Procs : StoreFailure(p)

SpecFail == Init /\ [][NextFail]_vars

\* the program with an available store, each request in progress scheduled
\* until it ends, and the row lock granted to a request that keeps asking for it
SpecLive ==
  /\ Init
  /\ [][Next]_vars
  /\ \A p \in Procs :
       /\ WF_vars(LoginCommit(p))
       /\ SF_vars(RotateSelect(p))
       /\ WF_vars(RotateValidate(p))
       /\ WF_vars(RotateCommit(p))

\* the state after each user has logged in once at time 0 (lines 89-95, twice)
InitTwo ==
  /\ now = 0
  /\ rows = <<RefreshToken(Users["a@x"].user_id, token_urlsafe(0), ExpOf(0)),
              RefreshToken(Users["b@x"].user_id, token_urlsafe(1), ExpOf(0))>>
  /\ entropy = Cardinality(DOMAIN Users)
  /\ locked = [p \in Procs |-> {}]
  /\ pc = [p \in Procs |-> "idle"]
  /\ req = [p \in Procs |-> None]
  /\ token = [p \in Procs |-> None]
  /\ pending = [p \in Procs |-> None]
  /\ jwt_token = [p \in Procs |-> None]
  /\ resp = [p \in Procs |-> None]
  /\ verified = [p \in Procs |-> <<>>]
  /\ requests = 0
  /\ rotations = [v \in TokenValues \cup {NOT_A_REAL_TOKEN} |-> 0]
  /\ presented = [v \in TokenValues \cup {NOT_A_REAL_TOKEN} |-> 0]
  /\ arrival = [p \in Procs |-> None]
  /\ origin = <<0, 0>>
  /\ failed = {}

\* the refresh endpoint alone
NextRefresh ==
  \/ Tick
  \/ \E p \in Procs, v \in Presentable : RotateStart(p, v)
  \/ \E p \in Procs : RotateSelect(p)
  \/ \E p \in Procs : RotateValidate(p)
  \/ \E p \in Procs : RotateCommit(p)
  \/ \E p \in Procs : Return(p)

\* the program serving refresh requests while two tokens of different users
\* are stored
SpecTwo == InitTwo /\ [][NextRefresh]_vars

(* ----------------------------------------------------------------- claims *)

IsLogin(p) == req[p] # None /\ req[p].op = "login"

IsRefresh(p) == req[p] # None /\ req[p].op = "refresh"

\* request p is a finished refresh request that presented v
RefreshDone(p, v) == pc[p] = "done" /\ IsRefresh(p) /\ req[p].refresh_token = v

\* the stored rows carrying the value v
RowsWith(v) == {i \in 1 .. Len(rows) : rows[i].refresh_token = v}

\* the stored row carrying the value v (the value is stored)
RowWith(v) == rows[CHOOSE i \in RowsWith(v) : TRUE]

\* the clock has passed the expiry of the stored row carrying v
PastExpiry(v) == now > RowWith(v).exp * TicksPerSec

TokenNotFound == [status |-> 404, detail |-> "REFRESH_TOKEN_NOT_FOUND"]

TokenExpired == [status |-> 400, detail |-> "REFRESH_TOKEN_EXPIRED"]

TokenAlreadyUsed == [status |-> 400, detail |-> "REFRESH_TOKEN_ALREADY_USED"]

InvalidCredentials == [status |-> 400, detail |-> "PASSWORD_INVALID"]

\* request p arrived while the presented row was stored, unexpired and unused
ArrivedValid(p) ==
  arrival[p] # None /\ arrival[p].found /\ ~ arrival[p].used /\ ~ arrival[p].expired

\* request p arrived after a rotation of the presented row had been committed
ArrivedUsed(p) == arrival[p] # None /\ arrival[p].found /\ arrival[p].used

\* C1: for every token value, whatever refresh and login requests run
\* concurrently (and whichever of them the store fails), at most one refresh
\* request presenting the value reaches the success branch and commits; no two
\* finished requests presenting it hold a success response.
C1_AtMostOneRotation ==
  \A v \in TokenValues :
    /\ rotations[v]
         + Cardinality({p \in Procs : pc[p] = "commit" /\ req[p].refresh_token = v}) <= 1
    /\ Cardinality({p \in Procs : RefreshDone(p, v) /\ resp[p].status = 200}) <= 1

\* C1 witness: a value has been rotated once, and a request that presented it
\* while it was still valid has ended in a failure
C1_Witness ==
  \E v \in TokenValues, p \in Procs :
    rotations[v] = 1 /\ RefreshDone(p, v) /\ ArrivedValid(p) /\ resp[p] = TokenAlreadyUsed

\* C2 as stated: once a rotation of a value has been committed, every refresh
\* request that arrives later with the same value fails with TokenAlreadyUsed,
\* however much time has passed.
C2_Original ==
  \A v \in TokenValues, p \in Procs :
    RefreshDone(p, v) /\ ArrivedUsed(p) => resp[p] = TokenAlreadyUsed

\* C2 amended: once a rotation of a value has been committed, every refresh
\* request that arrives later with the same value fails: with TokenExpired when
\* the clock has passed expires_at at its expiry check, with TokenAlreadyUsed
\* (400, REFRESH_TOKEN_ALREADY_USED) otherwise.
C2_LaterRotateFails ==
  [][\A p \in Procs :
       pc[p] = "validate" /\ pc'[p] # "validate" /\ ArrivedUsed(p)
       => /\ pc'[p] = "done"
          /\ resp'[p] = IF PastExpiry(req[p].refresh_token)
                        THEN TokenExpired ELSE TokenAlreadyUsed]_vars

\* C2 witness: a request that arrived after the rotation has been refused as
\* already used
C2_Witness ==
  \E v \in TokenValues, p \in Procs :
    RefreshDone(p, v) /\ ArrivedUsed(p) /\ rotations[v] = 1 /\ resp[p] = TokenAlreadyUsed

\* the two requests p and q are the only ones that ever presented v, both
\* arrived while v was valid (so neither had committed), and both have finished
Raced(p, q, v) ==
  /\ p # q
  /\ RefreshDone(p, v) /\ RefreshDone(q, v)
  /\ ArrivedValid(p) /\ ArrivedValid(q)
  /\ presented[v] = 2

OneSuccessOneAlreadyUsed(p, q) ==
  \/ resp[p].status = 200 /\ resp[q] = TokenAlreadyUsed
  \/ resp[q].status = 200 /\ resp[p] = TokenAlreadyUsed

\* C3 as stated: two refresh requests that present the same valid value and
\* both start before either commits end in one success and one
\* TokenAlreadyUsed, in every interleaving.
C3_Original ==
  \A v \in TokenValues, p, q \in Procs :
    Raced(p, q, v) => OneSuccessOneAlreadyUsed(p, q)

\* C3 amended: two refresh requests that present the same valid value and both
\* start before either commits never both succeed; if the value is still
\* unexpired when both have finished, one succeeds and the other fails with
\* TokenAlreadyUsed; a request refused otherwise is refused with TokenExpired,
\* and only after the clock has passed expires_at.
C3_RaceHasOneWinner ==
  \A v \in TokenValues, p, q \in Procs :
    Raced(p, q, v)
    => /\ ~ (resp[p].status = 200 /\ resp[q].status = 200)
       /\ ~ PastExpiry(v) => OneSuccessOneAlreadyUsed(p, q)
       /\ \A r \in {p, q} :
            \/ resp[r].status = 200
            \/ resp[r] = TokenAlreadyUsed
            \/ resp[r] = TokenExpired /\ PastExpiry(v)

\* C3 witness: a finished race with one success and one TokenAlreadyUsed
C3_Witness ==
  \E v \in TokenValues, p, q \in Procs :
    Raced(p, q, v) /\ ~ PastExpiry(v) /\ OneSuccessOneAlreadyUsed(p, q)

\* C4: a refresh request whose presented row is stored and past its expiry
\* when the request makes its checks fails with TokenExpired, whether the row
\* is used or not, and never with TokenAlreadyUsed.
C4_ExpiredBeforeUsed ==
  [][\A p \in Procs :
       /\ pc[p] = "validate" /\ pc'[p] # "validate"
       /\ RowsWith(req[p].refresh_token) # {}
       /\ PastExpiry(req[p].refresh_token)
       => pc'[p] = "done" /\ resp'[p] = TokenExpired]_vars

\* C4 witness: a request that presented a used and expired value has been
\* refused as expired
C4_Witness ==
  \E v \in TokenValues, p \in Procs :
    RefreshDone(p, v) /\ ArrivedUsed(p) /\ RowWith(v).used /\ resp[p] = TokenExpired

\* C5: every step of a refresh request whose presented value matches no stored
\* row leaves the table as it is, and the request ends with TokenNotFound (404).
C5_NotFoundNoMutation ==
  [][\A p \in Procs :
       /\ pc[p] \in {"select", "validate"} /\ pc'[p] # pc[p]
       /\ RowsWith(req[p].refresh_token) = {}
       => /\ rows' = rows
          /\ pc'[p] \in {"validate", "done"}
          /\ pc'[p] = "done" => resp'[p] = TokenNotFound]_vars

\* C5 witness: with rows in the store, a request presenting a value no row
\* carries has been refused as not found
C5_Witness ==
  \E p \in Procs :
    /\ RefreshDone(p, NOT_A_REAL_TOKEN) /\ resp[p] = TokenNotFound
    /\ Len(rows) > 0

\* the rows a rotation of row i has inserted
Successors(i) == {j \in 1 .. Len(rows) : origin[j] = i}

\* C6: in every committed state of the table (also when requests fail or the
\* store fails), a row is used exactly when the row its rotation inserted
\* exists, and then there is one such row; so the used rows are as many as the
\* rows inserted by rotations, and the rows inserted by rotations of a value are
\* as many as the successful rotations that presented it.
C6_RotationAtomic ==
  /\ \A i \in 1 .. Len(rows) :
       /\ rows[i].used <=> Successors(i) # {}
       /\ Cardinality(Successors(i)) <= 1
       /\ rotations[rows[i].refresh_token] = Cardinality(Successors(i))
  /\ Cardinality({i \in 1 .. Len(rows) : rows[i].used})
       = Cardinality({j \in 1 .. Len(rows) : origin[j] # 0})

\* C6 witness: a used row and its successor are in the table while another
\* rotation is between marking its row used and committing
C6_Witness ==
  \E i, j \in 1 .. Len(rows), p \in Procs :
    rows[i].used /\ origin[j] = i /\ pc[p] = "commit"

\* C7 as stated: a value handed out by a login or a rotation and never
\* presented before, presented while now <= expires_at, makes the refresh
\* request succeed with a different value.
C7_Original ==
  \A v \in TokenValues, p \in Procs :
    RefreshDone(p, v) /\ arrival[p].found /\ arrival[p].first /\ ~ PastExpiry(v)
    => resp[p].status = 200 /\ resp[p].refresh_token # v

\* C7 amended: a value handed out by a login or a rotation, never presented
\* before and presented by no other request while this one is in progress,
\* presented while now <= expires_at, makes the refresh request succeed with a
\* different value.
C7_RoundTrip ==
  \A v \in TokenValues, p \in Procs :
    /\ RefreshDone(p, v) /\ arrival[p].found /\ arrival[p].first
    /\ presented[v] = 1
    /\ ~ PastExpiry(v)
    => resp[p].status = 200 /\ resp[p].refresh_token # v

\* C7 witness: the value a rotation returned has itself been rotated
C7_Witness ==
  \E v \in TokenValues, p \in Procs :
    /\ RefreshDone(p, v) /\ arrival[p].first /\ presented[v] = 1
    /\ \E j \in RowsWith(v) : origin[j] # 0
    /\ resp[p].status = 200 /\ resp[p].refresh_token # v

\* C8: no step (of a login, of a refresh request that succeeds or fails, of a
\* store failure) takes a stored row from used = true to used = false, removes
\* it or changes its value.
C8_UsedIsMonotone ==
  [][\A i \in 1 .. Len(rows) :
       rows[i].used
       => /\ i <= Len(rows')
          /\ rows'[i].used
          /\ rows'[i].refresh_token = rows[i].refresh_token]_vars

\* C8 witness: a request that presented a used row has failed and the row is
\* still used
C8_Witness ==
  \E v \in TokenValues, p \in Procs :
    RefreshDone(p, v) /\ ArrivedUsed(p) /\ resp[p].status # 200 /\ RowWith(v).used

\* the login request p names a stored user and gives that user's secret
GoodCredentials(p) ==
  /\ req[p].username \in DOMAIN Users
  /\ verify_password(req[p].password, Users[req[p].username].hashed_password)

\* C9: a login request gets past verification exactly when its identifier
\* names a stored user whose hash accepts the secret; its pair is then that
\* user's (owner of the refresh token row, subject of the access token); every
\* other login request ends with InvalidCredentials (400, PASSWORD_INVALID).
C9_LoginIffCredentials ==
  \A p \in Procs :
    IsLogin(p)
    => /\ pc[p] = "login_commit"
          => /\ GoodCredentials(p)
             /\ pending[p].user_id = Users[req[p].username].user_id
             /\ jwt_token[p].sub = Users[req[p].username].user_id
       /\ pc[p] = "done" /\ GoodCredentials(p)
          => /\ resp[p].status = 200
             /\ resp[p].access_token.sub = Users[req[p].username].user_id
             /\ RowsWith(resp[p].refresh_token) # {}
             /\ RowWith(resp[p].refresh_token).user_id = Users[req[p].username].user_id
       /\ pc[p] = "done" /\ ~ GoodCredentials(p) => resp[p] = InvalidCredentials

\* C9 witness: the second user has logged in and holds a pair of their own,
\* while an unknown identifier whose secret the dummy hash accepts was refused
C9_Witness ==
  \E p, q \in Procs :
    /\ IsLogin(p) /\ pc[p] = "done" /\ req[p].username = "b@x"
    /\ resp[p].status = 200 /\ resp[p].access_token.sub = 2
    /\ IsLogin(q) /\ pc[q] = "done" /\ req[q].username \notin DOMAIN Users
    /\ verify_password(req[q].password, DUMMY_PASSWORD)
    /\ resp[q] = InvalidCredentials

\* login request p failed on an identifier no user has
FailedUnknown(p) ==
  IsLogin(p) /\ pc[p] = "done" /\ req[p].username \notin DOMAIN Users

\* login request p failed on a stored user's identifier with a wrong secret
FailedWrongSecret(p) ==
  /\ IsLogin(p) /\ pc[p] = "done" /\ req[p].username \in DOMAIN Users
  /\ ~ verify_password(req[p].password, Users[req[p].username].hashed_password)

\* C10: a login that failed on an unknown identifier and a login that failed
\* on a known identifier with a wrong secret return the same response, status
\* 400 with detail PASSWORD_INVALID.
C10_FailureUndifferentiated ==
  \A p, q \in Procs :
    FailedUnknown(p) /\ FailedWrongSecret(q)
    => resp[p] = resp[q] /\ resp[p] = InvalidCredentials

\* C10 witness: both kinds of failed login have been answered
C10_Witness ==
  \E p, q \in Procs :
    FailedUnknown(p) /\ FailedWrongSecret(q) /\ resp[p].status = 400

\* C11: every login request that has been through verification has made
\* exactly one verify_password call: against DUMMY_PASSWORD when no user has the
\* identifier (so before InvalidCredentials is returned), against the stored
\* hash of the user, which is not the dummy hash, when a user has it.
C11_OneVerification ==
  \A p \in Procs :
    IsLogin(p) /\ pc[p] \in {"login_commit", "done"}
    => /\ Len(verified[p]) = 1
       /\ req[p].username \notin DOMAIN Users
          => verified[p][1] = <<"hash", "s0", "p1">> /\ resp[p] = InvalidCredentials
       /\ req[p].username \in DOMAIN Users
          => /\ verified[p][1] = Users[req[p].username].hashed_password
             /\ verified[p][1] # <<"hash", "s0", "p1">>

\* C11 witness: a login with an unknown identifier has been refused after its
\* one verification against the dummy hash
C11_Witness ==
  \E p \in Procs :
    /\ IsLogin(p) /\ pc[p] = "done" /\ req[p].username = "nobody@x"
    /\ verified[p] = <<DUMMY_PASSWORD>> /\ resp[p] = InvalidCredentials

\* C12: no two rows of the table carry the same refresh_token value, whatever
\* their used flag, expiry or origin (the random source is taken never to
\* return a value twice).
C12_TokenValueUnique ==
  \A i, j \in 1 .. Len(rows) : rows[i].refresh_token = rows[j].refresh_token => i = j

\* C12 witness: the table holds a used row, its successor and a row of another login
C12_Witness ==
  \E i, j, k \in 1 .. Len(rows) :
    rows[i].used /\ origin[j] = i /\ origin[k] = 0 /\ k # i

\* a rotation of v other than the one request p may have committed itself
OtherRotation(p, v) == rotations[v] > (IF resp[p].status = 200 THEN 1 ELSE 0)

\* C13: a step in which the store fails a login or a refresh request (at the
\* select, at the checks or at the commit) leaves the table exactly as it was
\* and holds no row lock afterwards; and a refresh request that presents a value
\* on which an earlier request was failed by the store, is not itself failed by
\* the store, finishes before the expiry of the row and with no other rotation
\* of the value, succeeds.
C13_AbortLeavesStore ==
  /\ [][\A p \in Procs :
          pc[p] # "done" /\ pc'[p] = "done" /\ resp'[p].status = 500
          => rows' = rows /\ locked'[p] = {}]_vars
  /\ [](\A v \in TokenValues, p \in Procs :
          /\ RefreshDone(p, v) /\ arrival[p].found /\ arrival[p].retry
          /\ resp[p].status # 500
          /\ ~ PastExpiry(v)
          /\ ~ OtherRotation(p, v)
          => /\ resp[p].status = 200
             /\ RowWith(v).used
             /\ \E j \in 1 .. Len(rows) :
                  rows[j].refresh_token = resp[p].refresh_token
                  /\ origin[j] \in RowsWith(v))

\* C13 witness: a value on which the store failed one refresh request has
\* been presented again and rotated
C13_Witness ==
  \E v \in TokenValues, p \in Procs :
    /\ v \in failed /\ RefreshDone(p, v) /\ arrival[p].retry
    /\ resp[p].status = 200 /\ rotations[v] = 1

\* C14 as stated: every finished request holds a token pair, one of the four
\* declared errors (InvalidCredentials, TokenNotFound, TokenExpired,
\* TokenAlreadyUsed) or an error of the kind TransientStoreFailure; an exception
\* of the store never reaches the caller as it was raised.
C14_Original ==
  \A p \in Procs :
    pc[p] = "done"
    => \/ resp[p].status = 200
       \/ resp[p] \in {InvalidCredentials, TokenNotFound, TokenExpired, TokenAlreadyUsed}
       \/ resp[p].detail = "TransientStoreFailure"

\* C15: every step of a refresh request other than its successful commit, and
\* so the step that ends it with TokenExpired or TokenAlreadyUsed, leaves every
\* row of the table as it was (used flag, expiry, value, owner), inserts no row,
\* and a request that ends in a failure holds no row lock afterwards; no failure
\* path turns an unused row into a used one.
C15_FailedRotateNoMutation ==
  [][\A p \in Procs :
       /\ IsRefresh(p) /\ pc[p] \in {"select", "validate", "commit"}
       /\ pc'[p] # pc[p]
       /\ ~ (pc'[p] = "done" /\ resp'[p].status = 200)
       => /\ rows' = rows
          /\ pc'[p] = "done" => locked'[p] = {}]_vars

\* C15 witness: a request that presented the only row of the table, unused and
\* past its expiry, has been refused as expired, and the row is still unused
C15_Witness ==
  \E v \in TokenValues, p \in Procs :
    /\ RefreshDone(p, v) /\ resp[p] = TokenExpired
    /\ Len(rows) = 1 /\ ~ RowWith(v).used /\ rotations[v] = 0

\* the row request p has minted was given the expiry now + refresh_ttl, to the
\* tick
ExactExpiry(p) ==
  pending'[p].exp * TicksPerSec = now + REFRESH_TOKEN_EXPIRE_SECS * TicksPerSec

\* the row request p has minted was given the expiry now + refresh_ttl, cut to
\* whole seconds
WholeSecondExpiry(p) ==
  /\ pending'[p].exp * TicksPerSec <= now + REFRESH_TOKEN_EXPIRE_SECS * TicksPerSec
  /\ now + REFRESH_TOKEN_EXPIRE_SECS * TicksPerSec < (pending'[p].exp + 1) * TicksPerSec

\* the steps of the login request p, but for the expiry of the minted row: the
\* mint changes no row and makes an unused row of the authenticated user, the
\* commit appends that row and changes no other, a failure changes nothing
LoginFrame(p) ==
  /\ pc[p] = "idle" /\ pc'[p] = "login_commit"
     => /\ rows' = rows
        /\ ~ pending'[p].used
        /\ pending'[p].user_id = Users[req'[p].username].user_id
  /\ pc[p] = "login_commit" /\ pc'[p] = "done" /\ resp'[p].status = 200
     => /\ rows' = Append(rows, pending[p])
        /\ resp'[p].refresh_token = pending[p].refresh_token
  /\ pc[p] \in {"idle", "login_commit"} /\ pc'[p] = "done" /\ req'[p].op = "login"
     /\ resp'[p].status # 200
     => rows' = rows

\* C16 as stated: a successful login adds exactly one row, unused, owned by
\* the authenticated user, with expires_at = now + refresh_ttl, and leaves every
\* existing row unchanged; a failed login adds no row and changes no row.
C16_Original ==
  [][\A p \in Procs :
       /\ LoginFrame(p)
       /\ pc[p] = "idle" /\ pc'[p] = "login_commit" => ExactExpiry(p)]_vars

\* C16 amended: a successful login adds exactly one row, unused, owned by the
\* authenticated user, with expires_at = now + refresh_ttl cut down to whole
\* seconds (now + refresh_ttl - 1 s < expires_at <= now + refresh_ttl), and
\* leaves every existing row unchanged; a failed login adds no row and changes
\* no row.
C16_LoginAddsOneRow ==
  [][\A p \in Procs :
       /\ LoginFrame(p)
       /\ pc[p] = "idle" /\ pc'[p] = "login_commit" => WholeSecondExpiry(p)]_vars

\* C16 witness: a user who holds an unused row has logged in again, and the
\* table now holds both rows, unused, with different expiries
C16_Witness ==
  \E p \in Procs, i, j \in 1 .. Len(rows) :
    /\ IsLogin(p) /\ pc[p] = "done" /\ resp[p].status = 200
    /\ rows[j].refresh_token = resp[p].refresh_token
    /\ i < j /\ rows[i].user_id = rows[j].user_id
    /\ ~ rows[i].used /\ ~ rows[j].used /\ rows[i].exp # rows[j].exp

\* C17 as stated: the row a successful rotation mints has the owner of the
\* consumed row, used = false and expires_at = now + refresh_ttl, the access
\* token is signed for that owner, the commit inserts that row, and every row
\* inserted by a rotation has the owner of the row it replaced.
C17_Original ==
  /\ [][\A p \in Procs :
          pc[p] = "validate" /\ pc'[p] = "commit"
          => /\ pending'[p].user_id = RowWith(req[p].refresh_token).user_id
             /\ ~ pending'[p].used
             /\ jwt_token'[p].sub = RowWith(req[p].refresh_token).user_id
             /\ ExactExpiry(p)]_vars
  /\ [][\A p \in Procs :
          pc[p] = "commit" /\ pc'[p] = "done" /\ resp'[p].status = 200
          => /\ rows'[Len(rows')] = pending[p]
             /\ resp'[p].access_token = jwt_token[p]]_vars
  /\ [](\A j \in 1 .. Len(rows) :
          origin[j] # 0 => rows[j].user_id = rows[origin[j]].user_id)

\* C17 amended: the row a successful rotation mints has the owner of the
\* consumed row, used = false and expires_at = now + refresh_ttl cut down to
\* whole seconds (whatever the expiry of the consumed row), the access token is
\* signed for that owner, the commit inserts that row, and every row inserted
\* by a rotation has the owner of the row it replaced, so every row of a chain
\* of rotations has the owner of the login row the chain starts from.
C17_SuccessorKeepsOwner ==
  /\ [][\A p \in Procs :
          pc[p] = "validate" /\ pc'[p] = "commit"
          => /\ pending'[p].user_id = RowWith(req[p].refresh_token).user_id
             /\ ~ pending'[p].used
             /\ jwt_token'[p].sub = RowWith(req[p].refresh_token).user_id
             /\ WholeSecondExpiry(p)]_vars
  /\ [][\A p \in Procs :
          pc[p] = "commit" /\ pc'[p] = "done" /\ resp'[p].status = 200
          => /\ rows'[Len(rows')] = pending[p]
             /\ resp'[p].access_token = jwt_token[p]]_vars
  /\ [](\A j \in 1 .. Len(rows) :
          origin[j] # 0 => rows[j].user_id = rows[origin[j]].user_id)

\* C17 witness: a chain of two rotations from a login of the second user; the
\* newest row is unused, owned by that user, and expires later than the login row
C17_Witness ==
  \E i, j, k \in 1 .. Len(rows) :
    /\ origin[i] = 0 /\ origin[j] = i /\ origin[k] = j
    /\ rows[i].user_id = 2 /\ rows[k].user_id = 2
    /\ ~ rows[k].used /\ rows[k].exp > rows[i].exp

\* no request other than p that presents the value of p holds a row lock
NoRivalHoldsLock(p) ==
  \A q \in Procs \ {p} :
    IsRefresh(q) /\ req[q].refresh_token = req[p].refresh_token => locked[q] = {}

\* C18: with two stored values and refresh requests on them interleaved in
\* every way, a request locks rows of its own value only, so its select can
\* proceed whenever no request on the same value holds the lock; what its checks
\* decide depends on the clock and on the row it presented alone (expired, else
\* used, else success); and a row changes only in the commit of a request that
\* presented its value, which sets its used flag and nothing else.
C18_DifferentValuesIndependent ==
  /\ [](\A p \in Procs :
          /\ locked[p] # {} => locked[p] = RowsWith(req[p].refresh_token)
          /\ pc[p] = "select" /\ NoRivalHoldsLock(p) => ENABLED RotateSelect(p))
  /\ [][\A p \in Procs :
          pc[p] = "validate" /\ pc'[p] # "validate"
          /\ RowsWith(req[p].refresh_token) # {}
          => IF PastExpiry(req[p].refresh_token)
             THEN pc'[p] = "done" /\ resp'[p] = TokenExpired
             ELSE IF RowWith(req[p].refresh_token).used
             THEN pc'[p] = "done" /\ resp'[p] = TokenAlreadyUsed
             ELSE pc'[p] = "commit"]_vars
  /\ [][\A i \in 1 .. Len(rows) :
          /\ i <= Len(rows')
          /\ rows'[i] # rows[i]
             => /\ rows'[i] = [rows[i] EXCEPT !.used = TRUE]
                /\ \E p \in Procs :
                     /\ pc[p] = "commit" /\ pc'[p] = "done" /\ resp'[p].status = 200
                     /\ req[p].refresh_token = rows[i].refresh_token]_vars

\* C18 witness: two requests that presented different stored values are both
\* between their checks and their commit, each holding the lock on its own row
C18_Witness ==
  \E p, q \in Procs :
    /\ pc[p] = "commit" /\ pc[q] = "commit"
    /\ req[p].refresh_token # req[q].refresh_token
    /\ locked[p] # {} /\ locked[q] # {} /\ locked[p] \cap locked[q] = {}

\* some request in progress can take its next step
SomeStepEnabled ==
  \E q \in Procs :
    \/ ENABLED LoginCommit(q)
    \/ ENABLED RotateSelect(q)
    \/ ENABLED RotateValidate(q)
    \/ ENABLED RotateCommit(q)

\* every request in progress ends, a request holds a row lock only between its
\* select and its end, and while a request is in progress some request can step
RotateTerminates ==
  /\ \A p \in Procs : pc[p] \in {"select", "validate", "commit"} ~> pc[p] = "done"
  /\ [](\A p \in Procs : pc[p] \in {"idle", "select", "done"} => locked[p] = {})
  /\ []((\E p \in Procs : pc[p] \notin {"idle", "done"}) => SomeStepEnabled)

\* C19 as stated: with a fair scheduler and an available store every refresh
\* request ends in a success or a failure, the row lock is released on the
\* commit and on every failure path, no deadlock is reachable, and a request
\* that waited for the lock while its holder committed observes used = true and
\* fails with TokenAlreadyUsed.
C19_Original ==
  /\ RotateTerminates
  /\ [](\A v \in TokenValues, p \in Procs :
          RefreshDone(p, v) /\ arrival[p].found /\ arrival[p].waited
          => RowWith(v).used /\ resp[p] = TokenAlreadyUsed)

\* C19 amended: with a fair scheduler and an available store every refresh
\* request ends in a success or a failure, the row lock is released on the
\* commit and on every failure path, no deadlock is reachable, and a request
\* that waited for the lock while its holder committed finds the row used and
\* fails: with TokenAlreadyUsed, or with TokenExpired when the clock has passed
\* expires_at by the time of its expiry check.
C19_WaiterFails ==
  /\ RotateTerminates
  /\ [](\A v \in TokenValues, p \in Procs :
          RefreshDone(p, v) /\ arrival[p].found /\ arrival[p].waited
          => /\ RowWith(v).used
             /\ \/ resp[p] = TokenAlreadyUsed
                \/ resp[p] = TokenExpired /\ PastExpiry(v))

\* C19 witness: a request that was waiting for the row lock when its holder
\* committed has been refused as already used
C19_Witness ==
  \E v \in TokenValues, p \in Procs :
    /\ RefreshDone(p, v) /\ arrival[p].waited /\ ~ arrival[p].used
    /\ resp[p] = TokenAlreadyUsed /\ rotations[v] = 1

RECURSIVE SumRotations(_)
\* the successful rotations that presented a value of S
SumRotations(S) ==
  IF S = {} THEN 0
  ELSE LET v == CHOOSE x \in S : TRUE IN rotations[v] + SumRotations(S \ {v})

\* the rows inserted by logins
LoginRows == {j \in 1 .. Len(rows) : origin[j] = 0}

\* C20: in every committed state of the table (whichever requests have failed
\* and whichever the store has failed) the unused rows are as many as the
\* successful logins, the rows as many as the successful logins and the
\* successful rotations together; and no step removes a row or changes the
\* value, the owner or the expiry of a stored row.
C20_RowCounts ==
  /\ [](/\ Cardinality({i \in 1 .. Len(rows) : ~ rows[i].used}) = Cardinality(LoginRows)
        /\ Len(rows) = Cardinality(LoginRows) + SumRotations(TokenValues)
        /\ Len(origin) = Len(rows))
  /\ [][/\ Len(rows') >= Len(rows)
        /\ \A i \in 1 .. Len(rows) :
             /\ rows'[i].refresh_token = rows[i].refresh_token
             /\ rows'[i].user_id = rows[i].user_id
             /\ rows'[i].exp = rows[i].exp
        /\ Len(rows') > Len(rows)
           => /\ Len(rows') = Len(rows) + 1
              /\ \E p \in Procs :
                   /\ pc[p] \in {"login_commit", "commit"}
                   /\ pc'[p] = "done" /\ resp'[p].status = 200]_vars

\* C20 witness: after two logins and one rotation the table holds three rows,
\* two of them unused
C20_Witness ==
  /\ Len(rows) = 3
  /\ Cardinality({i \in 1 .. Len(rows) : ~ rows[i].used}) = 2
  /\ Cardinality(LoginRows) = 2
  /\ SumRotations(TokenValues) = 1

====
